---- MODULE Spec2Model ----
(***************************************************************************)
(* A model of pyaldex2.py: the ALDEx2 adapter (run_aldex2,                 *)
(* get_clr_instance, get_clr) and the two plot functions (MA_plot,         *)
(* vulcano_plot).                                                          *)
(*                                                                         *)
(* Python names are references to objects.  The caller's tables live in    *)
(* `args`; the objects a call creates live in the call's own store         *)
(* (frame[t].objs).  The R global environment is the process-wide variable *)
(* `globalenv`; `rcalls` is the log of the invocations of the R routines   *)
(* made by the latest call of each thread.                                 *)
(***************************************************************************)
EXTENDS Integers, Sequences, FiniteSets, TLC

VARIABLES args, frame, globalenv, rcalls

vars == <<args, frame, globalenv, rcalls>>

(* ------------------------------ bounds -------------------------------- *)

\* the largest number of samples (and of metadata rows) of an input
MaxSamples == 3
\* the largest number of features of a counts table
MaxFeatures == 2
\* the largest explicit mc_samples
MaxMC == 3
\* the largest number of rows of a result table given to a plot
MaxRows == 2
\* calls one thread makes in the specification of the shared R environment
MaxCalls == 2

\* the literal 1000 of the auto-resolution
AutoTotal == 1000

SampleNames == <<"s1", "s2", "s3", "s4", "s5">>
FeatureNames == <<"f1", "f2", "f3", "f4">>
Labels == {"A", "B"}
Threads == {1, 2}
\* the outcomes drawn for a run of an R routine, which is a black box
Seeds == {0, 1, 2}
\* scripts and the routines each defines
Scripts == {"A.R", "B.R", "C.R"}
Routines == {"run_aldex", "get_clr"}

Defines(script) ==
    IF script = "C.R" THEN {"run_aldex"} ELSE Routines

(* --------------------------- Python values ---------------------------- *)

PyStr(s) == [t |-> "str", s |-> s, n |-> 0]
PyInt(n) == [t |-> "int", s |-> "", n |-> n]
\* mc_samples == "auto"
IsAuto(v) == v.t = "str" /\ v.s = "auto"

NoRef == [sp |-> "none", id |-> 0]
CallerRef(i) == [sp |-> "caller", id |-> i]

\* the object a reference of frame f points to
Deref(f, ref) ==
    IF ref.sp = "caller" THEN args[ref.id] ELSE f.objs[ref.id]

\* a new object in the store of frame f
Alloc(f, obj) == [f EXCEPT !.objs = Append(@, obj)]
LastRef(f) == [sp |-> "local", id |-> Len(f.objs)]

(* ----------------------------- DataFrame ------------------------------ *)

\* values[r][c] is the cell of row r and column c
DataFrame(index, columns, values) ==
    [index |-> index, columns |-> columns, values |-> values]
Series(index, values) == [index |-> index, values |-> values]

Shape0(df) == Len(df.index)
Shape1(df) == Len(df.columns)

\* DataFrame.T
Transpose(df) ==
    DataFrame(df.columns, df.index,
              [c \in 1..Len(df.columns) |->
                  [r \in 1..Len(df.index) |-> df.values[r][c]]])

\* faulty variant of DataFrame.copy(): the same object under another name
AliasOf(f, ref) == [frame |-> f, ref |-> ref]

\* DataFrame.copy(): a new object with the same contents
CopyOf(f, ref) ==
    [frame |-> Alloc(f, Deref(f, ref)), ref |-> LastRef(Alloc(f, Deref(f, ref)))]

RECURSIVE Positions(_, _, _)
\* the positions p >= from of index, ascending, with index[p] = key
Positions(index, key, from) ==
    IF from > Len(index) THEN <<>>
    ELSE (IF index[from] = key THEN <<from>> ELSE <<>>)
         \o Positions(index, key, from + 1)

RECURSIVE LocPositions(_, _, _)
\* DataFrame.loc[keys]: for each key in order, the rows labelled with it
LocPositions(index, keys, k) ==
    IF k > Len(keys) THEN <<>>
    ELSE Positions(index, keys[k], 1) \o LocPositions(index, keys, k + 1)

\* .loc[keys] raises KeyError when a key labels no row
LocMissing(index, keys) ==
    \E k \in 1..Len(keys) : Positions(index, keys[k], 1) = <<>>

\* faulty variant of .loc: the rows by position, whatever their labels
IlocFirstColumn(df, keys) ==
    Series([k \in 1..Len(keys) |-> df.index[k]],
           [k \in 1..Len(keys) |-> df.values[k][1]])

\* metadata.loc[keys].iloc[:, 0]
LocFirstColumn(df, keys) ==
    LET ps == LocPositions(df.index, keys, 1)
    IN  Series([k \in 1..Len(ps) |-> df.index[ps[k]]],
               [k \in 1..Len(ps) |-> df.values[ps[k]][1]])

\* Series.value_counts().values.min()
MinValueCount(s) ==
    LET count(v) == Cardinality({k \in 1..Len(s.values) : s.values[k] = v})
        present == {s.values[k] : k \in 1..Len(s.values)}
        v0 == CHOOSE v \in present : \A w \in present : count(v) <= count(w)
    IN  count(v0)

RECURSIVE SumSeq(_, _)
SumSeq(s, k) == IF k > Len(s) THEN 0 ELSE s[k] + SumSeq(s, k + 1)

\* DataFrame.sum(1): the sum of each row
RowSums(df) == [r \in 1..Len(df.index) |-> SumSeq(df.values[r], 1)]

RECURSIVE MaskPositions(_, _)
\* the positions a boolean mask keeps, ascending
MaskPositions(mask, k) ==
    IF k > Len(mask) THEN <<>>
    ELSE (IF mask[k] THEN <<k>> ELSE <<>>) \o MaskPositions(mask, k + 1)

\* df.loc[mask]: the rows the mask keeps
LocMask(df, mask) ==
    LET ps == MaskPositions(mask, 1)
    IN  DataFrame([k \in 1..Len(ps) |-> df.index[ps[k]]], df.columns,
                  [k \in 1..Len(ps) |-> df.values[ps[k]]])

\* faulty variant of the filter: the first sample alone decides
DropFirstZero(df) ==
    LocMask(df, [r \in 1..Len(df.index) |-> df.values[r][1] > 0])

\* input_counts.loc[input_counts.sum(1) > 0]
DropZero(df) ==
    LocMask(df, [r \in 1..Len(df.index) |-> RowSums(df)[r] > 0])

(* ------------------------- the R side (rpy2) --------------------------- *)

\* py2rpy of a DataFrame: an R data.frame, a list of named column vectors
\* with row names
Py2Rpy(df) ==
    [rownames |-> df.index, names |-> df.columns,
     cols |-> [c \in 1..Len(df.columns) |->
                  [r \in 1..Len(df.index) |-> df.values[r][c]]]]

\* the matrix get_clr returns for one Monte-Carlo instance: a black box, one
\* of the outcomes Seeds draws; m[r][c] is a CLR value in units of 1/2
ClrMatrix(seed, nrow, ncol) ==
    [r \in 1..nrow |-> [c \in 1..ncol |-> 2 * ((seed * c + r + seed) % 3) - 2]]

ResultColumns == <<"rab.all", "diff.btw", "effect", "we.eBH">>

\* the data.frame run_aldex returns: a black box, one row per feature
AldexResult(seed, features) ==
    [rownames |-> features, names |-> ResultColumns,
     cols |-> [c \in 1..4 |-> [r \in 1..Len(features) |-> (seed + r + c) % 4]]]

\* rpy2py of a data.frame
Rpy2Py(rdf) ==
    DataFrame(rdf.rownames, rdf.names,
              [r \in 1..Len(rdf.rownames) |->
                  [c \in 1..Len(rdf.names) |-> rdf.cols[c][r]]])

\* faulty variant of source: a routine already defined is kept
SourcedOnce(env, script) ==
    [name \in Routines |->
        IF name \in Defines(script) /\ env[name] = "" THEN script ELSE env[name]]

\* r["source"](path): the script's definitions replace those of the same
\* name in the global environment
Sourced(env, script) ==
    [name \in Routines |-> IF name \in Defines(script) THEN script ELSE env[name]]

RoutineOf(op) == IF op = "run_aldex2" THEN "run_aldex" ELSE "get_clr"

(* ------------------------- median aggregation -------------------------- *)

RECURSIVE InsertSorted(_, _)
InsertSorted(s, x) ==
    IF s = <<>> THEN <<x>>
    ELSE IF x <= Head(s) THEN <<x>> \o s
    ELSE <<Head(s)>> \o InsertSorted(Tail(s), x)

RECURSIVE SortValues(_)
SortValues(s) == IF s = <<>> THEN <<>> ELSE InsertSorted(SortValues(Tail(s)), Head(s))

\* faulty variant of the median: the middle of the values as they come
MiddleUnsorted(vals) ==
    IF Len(vals) % 2 = 1 THEN vals[(Len(vals) + 1) \div 2]
    ELSE (vals[Len(vals) \div 2] + vals[Len(vals) \div 2 + 1]) \div 2

\* Series.median(): the middle of the sorted values, the mean of the two
\* middle ones when their number is even (values are in units of 1/2, so
\* the mean of two of them is exact)
Median(vals) ==
    LET s == SortValues(vals)
    IN  IF Len(s) % 2 = 1 THEN s[(Len(s) + 1) \div 2]
        ELSE (s[Len(s) \div 2] + s[Len(s) \div 2 + 1]) \div 2

\* DataFrame.stack(): one value per (row label, column label), row by row
Stack(df) ==
    LET nc == Len(df.columns)
    IN  Series([k \in 1..(Len(df.index) * nc) |->
                   <<df.index[((k - 1) \div nc) + 1], df.columns[((k - 1) % nc) + 1]>>],
               [k \in 1..(Len(df.index) * nc) |->
                   df.values[((k - 1) \div nc) + 1][((k - 1) % nc) + 1]])

\* the value a stacked table holds for a key
AtKey(s, key) == s.values[CHOOSE k \in 1..Len(s.index) : s.index[k] = key]

\* pd.concat(stacked, axis=1).apply(median, axis=1): the tables are aligned
\* on their (row, column) keys; every table of one get_clr has the same keys
ConcatMedian(stacked) ==
    IF stacked = <<>> THEN Series(<<>>, <<>>)
    ELSE Series(stacked[1].index,
                [k \in 1..Len(stacked[1].index) |->
                    Median([j \in 1..Len(stacked) |->
                               AtKey(stacked[j], stacked[1].index[k])])])

RECURSIVE Uniq(_, _)
\* the distinct elements of a sequence, in the order of their first place
Uniq(s, seen) ==
    IF s = <<>> THEN <<>>
    ELSE IF Head(s) \in seen THEN Uniq(Tail(s), seen)
    ELSE <<Head(s)>> \o Uniq(Tail(s), seen \cup {Head(s)})

\* Series.unstack(): the table of the keyed values (the order pandas gives
\* the labels is not modelled: a cell is found by its labels)
Unstack(s) ==
    LET idx == Uniq([k \in 1..Len(s.index) |-> s.index[k][1]], {})
        cls == Uniq([k \in 1..Len(s.index) |-> s.index[k][2]], {})
    IN  DataFrame(idx, cls,
                  [r \in 1..Len(idx) |->
                      [c \in 1..Len(cls) |-> AtKey(s, <<idx[r], cls[c]>>)]])

\* lines 149-153 of get_clr
Aggregate(dfs) == Unstack(ConcatMedian([j \in 1..Len(dfs) |-> Stack(dfs[j])]))

(* ------------------------------ frames --------------------------------- *)

\* an axes without points, lines or legend
NoLegend == [shown |-> FALSE, labels |-> <<>>]
NoAxes == [points |-> <<>>, lines |-> <<>>, labels |-> <<>>, legend |-> NoLegend]

\* the locals of a call that has not started
IdleFrame ==
    [op |-> "", pc |-> "idle", err |-> "",
     counts |-> NoRef, metadata |-> NoRef, metadata_arg |-> NoRef,
     r_script_path |-> "",
     mc_samples |-> PyInt(0), arg4 |-> PyInt(0),
     fn |-> "", input_counts |-> NoRef, cond |-> <<>>,
     montecarlo_samples |-> 0, df_result |-> NoRef,
     i |-> 0, dfs |-> <<>>, averages |-> NoRef,
     results_input |-> NoRef, results |-> NoRef, for_vulcano |-> NoRef,
     hue |-> NoRef, threshold |-> 0, line_or_legend |-> FALSE, ax |-> NoAxes,
     objs |-> <<>>, overlapped |-> FALSE, ncalls |-> 0]

EntryPc(op) ==
    CASE op = "get_clr" -> "loop"
      [] op = "MA_plot" -> "ma_copy"
      [] op = "vulcano_plot" -> "vp_copy"
      [] OTHER -> "source"

\* a call of an adapter function on the caller's tables args[1], args[2]
AdapterCall(op, script, mc, arg4) ==
    [IdleFrame EXCEPT !.op = op, !.pc = EntryPc(op),
                      !.counts = CallerRef(1), !.metadata = CallerRef(2),
                      !.metadata_arg = CallerRef(2),
                      !.r_script_path = script, !.mc_samples = mc,
                      !.arg4 = arg4]

Active(f) == f.pc \notin {"idle", "done", "failed"}

Raise(f, e) == [f EXCEPT !.pc = "failed", !.err = e]

(* ------------------ run_aldex2 and get_clr_instance -------------------- *)

\* lines 39-40 and 89-90: r["source"](str(r_script_path))
Source(t) ==
    /\ frame[t].pc = "source"
    /\ globalenv' = Sourced(globalenv, frame[t].r_script_path)
    /\ frame' = [frame EXCEPT ![t].pc = "lookup"]
    /\ UNCHANGED <<args, rcalls>>

\* lines 41 and 91: ro.globalenv["run_aldex"], ro.globalenv["get_clr"]
LookedUp(f, env) ==
    IF env[RoutineOf(f.op)] = "" THEN Raise(f, "LookupError")
    ELSE [f EXCEPT !.fn = env[RoutineOf(f.op)], !.pc = "orient"]

Lookup(t) ==
    /\ frame[t].pc = "lookup"
    /\ frame' = [frame EXCEPT ![t] = LookedUp(frame[t], globalenv)]
    /\ UNCHANGED <<args, globalenv, rcalls>>

\* lines 43-45 and 92-94: copy, and transpose when the columns are not as
\* many as the metadata rows
Oriented(f) ==
    LET c  == CopyOf(f, f.counts)
        f1 == [c.frame EXCEPT !.input_counts = c.ref]
        f2 == Alloc(f1, Transpose(Deref(f1, f1.input_counts)))
    IN  IF Shape1(Deref(f1, f1.input_counts)) # Shape0(Deref(f1, f1.metadata))
        THEN [f2 EXCEPT !.input_counts = LastRef(f2), !.pc = "check"]
        ELSE [f1 EXCEPT !.pc = "check"]

Orient(t) ==
    /\ frame[t].pc = "orient"
    /\ frame' = [frame EXCEPT ![t] = Oriented(frame[t])]
    /\ UNCHANGED <<args, globalenv, rcalls>>

\* faulty variant of the precondition: nothing is checked
ShapeUnchecked(f) == [f EXCEPT !.pc = "align"]

\* lines 46-48 and 95-97: the precondition
ShapeChecked(f) ==
    IF Shape1(Deref(f, f.input_counts)) = Shape0(Deref(f, f.metadata))
    THEN [f EXCEPT !.pc = "align"]
    ELSE Raise(f, "AssertionError")

CheckShape(t) ==
    /\ frame[t].pc = "check"
    /\ frame' = [frame EXCEPT ![t] = ShapeChecked(frame[t])]
    /\ UNCHANGED <<args, globalenv, rcalls>>

\* faulty variant of the alignment: the metadata rows in their own order
AlignedByPosition(f) ==
    LET f1 == Alloc(f, IlocFirstColumn(Deref(f, f.metadata),
                                       Deref(f, f.input_counts).columns))
    IN  [f1 EXCEPT !.metadata = LastRef(f1),
                   !.cond = Deref(f1, LastRef(f1)).values,
                   !.pc = "resolve"]

\* lines 49-51 and 98-100: the metadata rows of the counts columns, their
\* first column, and its values as the condition vector
Aligned(f) ==
    LET md   == Deref(f, f.metadata)
        keys == Deref(f, f.input_counts).columns
        f1   == Alloc(f, LocFirstColumn(md, keys))
    IN  IF LocMissing(md.index, keys) THEN Raise(f, "KeyError")
        ELSE [f1 EXCEPT !.metadata = LastRef(f1),
                        !.cond = Deref(f1, LastRef(f1)).values,
                        !.pc = "resolve"]

Align(t) ==
    /\ frame[t].pc = "align"
    /\ frame' = [frame EXCEPT ![t] = Aligned(frame[t])]
    /\ UNCHANGED <<args, globalenv, rcalls>>

\* faulty variant of int(1000 / m): the quotient rounded up
AutoCountCeil(m) == (AutoTotal + m - 1) \div m

\* int(1000 / m) for a group size m >= 1: the quotient, truncated
AutoCount(m) == AutoTotal \div m

\* int(v) of an int
IntOf(v) == v.n

\* lines 52-57 and 101-106
Resolved(f) ==
    [f EXCEPT !.montecarlo_samples =
                  IF IsAuto(f.mc_samples)
                  THEN AutoCount(MinValueCount(Deref(f, f.metadata)))
                  ELSE IntOf(f.mc_samples),
              !.pc = IF f.op = "run_aldex2" THEN "invoke" ELSE "dropzero"]

ResolveMC(t) ==
    /\ frame[t].pc = "resolve"
    /\ frame' = [frame EXCEPT ![t] = Resolved(frame[t])]
    /\ UNCHANGED <<args, globalenv, rcalls>>

\* lines 107-109 of get_clr_instance
ZeroDropped(f) ==
    LET f1 == Alloc(f, DropZero(Deref(f, f.input_counts)))
    IN  [f1 EXCEPT !.input_counts = LastRef(f1), !.pc = "invoke"]

DropZeroFeatures(t) ==
    /\ frame[t].pc = "dropzero"
    /\ frame' = [frame EXCEPT ![t] = ZeroDropped(frame[t])]
    /\ UNCHANGED <<args, globalenv, rcalls>>

\* the record of one invocation of an R routine
RCall(t, f) ==
    [thread |-> t, call |-> f.ncalls, op |-> f.op, mc_samples |-> f.mc_samples,
     routine |-> RoutineOf(f.op), fn |-> f.fn,
     script |-> f.r_script_path, overlapped |-> f.overlapped,
     df |-> Py2Rpy(Deref(f, f.input_counts)), cond |-> f.cond,
     mc |-> f.montecarlo_samples, arg4 |-> f.arg4]

\* lines 64-66 of run_aldex2: the result converted back
AldexReturned(f, seed) ==
    LET f1 == Alloc(f, Rpy2Py(AldexResult(seed, Deref(f, f.input_counts).index)))
    IN  [f1 EXCEPT !.df_result = LastRef(f1), !.pc = "done"]

\* lines 115-121 of get_clr_instance: the matrix labelled with the aligned
\* metadata's index and the filtered counts' index
ClrReturned(f, seed) ==
    LET ic == Deref(f, f.input_counts)
        f1 == Alloc(f, DataFrame(ic.index, Deref(f, f.metadata).index,
                                 ClrMatrix(seed, Len(ic.index), Len(ic.columns))))
    IN  [f1 EXCEPT !.df_result = LastRef(f1),
                   !.pc = IF f.op = "get_clr" THEN "collect" ELSE "done"]

\* lines 58-66 and 110-121: the conversion, the invocation of the routine
\* that was looked up, and the result
Invoke(t) ==
    /\ frame[t].pc = "invoke"
    /\ rcalls' = Append(rcalls, RCall(t, frame[t]))
    /\ \E seed \in Seeds :
          frame' = [frame EXCEPT ![t] =
                       IF frame[t].op = "run_aldex2"
                       THEN AldexReturned(frame[t], seed)
                       ELSE ClrReturned(frame[t], seed)]
    /\ UNCHANGED <<args, globalenv>>

(* ------------------------------ get_clr -------------------------------- *)

\* faulty variant of the loop: range(mc_samples) in place of
\* range(1, mc_samples + 1)
LoopSteppedFromZero(f) ==
    IF f.i + 1 <= f.mc_samples.n
    THEN [f EXCEPT !.i = f.i + 1, !.arg4 = PyInt(f.i), !.pc = "source",
                   !.metadata = f.metadata_arg]
    ELSE [f EXCEPT !.pc = "aggregate"]

\* lines 141-148: the next instance, a call of get_clr_instance with
\* instance=i and mc_samples=mc_samples; after the last one, the median
LoopStepped(f) ==
    IF f.i + 1 <= f.mc_samples.n
    THEN [f EXCEPT !.i = f.i + 1, !.arg4 = PyInt(f.i + 1), !.pc = "source",
                   !.metadata = f.metadata_arg]
    ELSE [f EXCEPT !.pc = "aggregate"]

Loop(t) ==
    /\ frame[t].pc = "loop"
    /\ frame' = [frame EXCEPT ![t] = LoopStepped(frame[t])]
    /\ UNCHANGED <<args, globalenv, rcalls>>

\* line 142: dfs[i] = the instance's table; the instance's other locals end
\* with its call
Collected(f) ==
    [f EXCEPT !.dfs = Append(@, Deref(f, f.df_result)),
              !.objs = <<>>, !.input_counts = NoRef, !.df_result = NoRef,
              !.pc = "loop"]

Collect(t) ==
    /\ frame[t].pc = "collect"
    /\ frame' = [frame EXCEPT ![t] = Collected(frame[t])]
    /\ UNCHANGED <<args, globalenv, rcalls>>

\* lines 149-154: pd.concat of no table raises ValueError
Aggregated(f) ==
    LET f1 == Alloc(f, Aggregate(f.dfs))
    IN  IF f.dfs = <<>> THEN Raise(f, "ValueError")
        ELSE [f1 EXCEPT !.averages = LastRef(f1), !.pc = "done"]

AggregateMedian(t) ==
    /\ frame[t].pc = "aggregate"
    /\ frame' = [frame EXCEPT ![t] = Aggregated(frame[t])]
    /\ UNCHANGED <<args, globalenv, rcalls>>

(* ------------------------------ MA_plot -------------------------------- *)

\* a label: a text, or a text formatted with a number (an f-string)
Txt(text) == [s |-> text, n |-> 0]
Fmt(text, n) == [s |-> text, n |-> n]

\* an object stored through a reference: the caller's object when the
\* reference is the caller's
Stored(f, a, ref, obj) ==
    IF ref.sp = "caller"
    THEN [frame |-> f, args |-> [a EXCEPT ![ref.id] = obj]]
    ELSE [frame |-> [f EXCEPT !.objs[ref.id] = obj], args |-> a]

ColPos(df, name) == CHOOSE c \in 1..Len(df.columns) : df.columns[c] = name
Column(df, name) == [r \in 1..Len(df.index) |-> df.values[r][ColPos(df, name)]]

\* df[name] = vals: the column is replaced, or added as the last one
WithColumn(df, name, vals) ==
    IF \E c \in 1..Len(df.columns) : df.columns[c] = name
    THEN DataFrame(df.index, df.columns,
                   [r \in 1..Len(df.index) |->
                       [df.values[r] EXCEPT ![ColPos(df, name)] = vals[r]]])
    ELSE DataFrame(df.index, Append(df.columns, name),
                   [r \in 1..Len(df.index) |-> Append(df.values[r], vals[r])])

PyAbs(x) == IF x < 0 THEN -x ELSE x

\* faulty variant of the bucket test: x > effect_threshold, without abs
AboveSigned(x, threshold) == x > threshold

\* abs(x) > effect_threshold
Above(x, threshold) == PyAbs(x) > threshold

HueAbove(threshold) == Fmt("abs(effect) > ", threshold)
HueBelow(threshold) == Fmt("abs(effect) < ", threshold)

\* line 177: results = results_input.copy()
MACopied(f) ==
    LET c == CopyOf(f, f.results_input)
    IN  [c.frame EXCEPT !.results = c.ref, !.pc = "ma_bucket"]

MACopy(t) ==
    /\ frame[t].pc = "ma_copy"
    /\ frame' = [frame EXCEPT ![t] = MACopied(frame[t])]
    /\ UNCHANGED <<args, globalenv, rcalls>>

\* lines 178-185: the columns effect_hue and size, set on results in place
MABucketed(f, a) ==
    LET df  == Deref(f, f.results)
        eff == Column(df, "effect")
        d1  == WithColumn(df, "effect_hue",
                          [r \in 1..Len(eff) |->
                              IF Above(eff[r], f.threshold)
                              THEN HueAbove(f.threshold) ELSE HueBelow(f.threshold)])
        d2  == WithColumn(d1, "size",
                          [r \in 1..Len(eff) |->
                              IF Above(eff[r], f.threshold)
                              THEN Txt("big") ELSE Txt("small")])
        st  == Stored(f, a, f.results, d2)
    IN  [frame |-> [st.frame EXCEPT !.pc = "ma_scatter"], args |-> st.args]

MABucket(t) ==
    /\ frame[t].pc = "ma_bucket"
    /\ frame' = [frame EXCEPT ![t] = MABucketed(frame[t], args).frame]
    /\ args' = MABucketed(frame[t], args).args
    /\ UNCHANGED <<globalenv, rcalls>>

\* lines 186-192: color_dict and size_dict
ColorOf(label, threshold) == IF label = HueAbove(threshold) THEN "red" ELSE "black"
SizeOf(label) == IF label = Txt("big") THEN 20 ELSE 5

\* lines 193-208: the scatter plot with hue and size and a full legend (a
\* title and the levels of each, the levels in the order of the data), the
\* horizontal line, and the default legend of all entries
MAScattered(f) ==
    LET df  == Deref(f, f.results)
        hue == Column(df, "effect_hue")
        sz  == Column(df, "size")
        labels == <<Txt("effect_hue")>> \o Uniq(hue, {})
                  \o <<Txt("size")>> \o Uniq(sz, {})
    IN  [f EXCEPT !.ax = [points |-> [r \in 1..Len(df.index) |->
                                        [x |-> Column(df, "rab.all")[r],
                                         y |-> Column(df, "diff.btw")[r],
                                         color |-> ColorOf(hue[r], f.threshold),
                                         size |-> SizeOf(sz[r])]],
                          lines |-> IF f.line_or_legend THEN <<"y=0">> ELSE <<>>,
                          labels |-> labels,
                          legend |-> [shown |-> TRUE, labels |-> labels]],
                  !.pc = "ma_legend"]

MAScatter(t) ==
    /\ frame[t].pc = "ma_scatter"
    /\ frame' = [frame EXCEPT ![t] = MAScattered(frame[t])]
    /\ UNCHANGED <<args, globalenv, rcalls>>

Min(a, b) == IF a < b THEN a ELSE b

\* the Python slice s[a:b] of a list, 0 <= a <= b
PySlice(s, a, b) == SubSeq(s, a + 1, Min(b, Len(s)))

\* lines 209-216: the legend is removed when the size column holds one
\* value, and else rebuilt from the entries 1 and 2
MALegended(f) ==
    LET sz == Column(Deref(f, f.results), "size")
    IN  [f EXCEPT !.ax.legend =
                      IF Cardinality({sz[r] : r \in 1..Len(sz)}) = 1
                      THEN NoLegend
                      ELSE [shown |-> TRUE, labels |-> PySlice(f.ax.labels, 1, 3)],
                  !.pc = "done"]

MALegend(t) ==
    /\ frame[t].pc = "ma_legend"
    /\ frame' = [frame EXCEPT ![t] = MALegended(frame[t])]
    /\ UNCHANGED <<args, globalenv, rcalls>>

(* ---------------------------- vulcano_plot ----------------------------- *)

\* A p-value 10^-k is written k, so that -log10 of it is k; pBH_threshold
\* 10^-t is written t.

\* line 242: results = results_input.copy()
VPCopied(f) ==
    LET c == CopyOf(f, f.results_input)
    IN  [c.frame EXCEPT !.results = c.ref, !.pc = "vp_prepare"]

VPCopy(t) ==
    /\ frame[t].pc = "vp_copy"
    /\ frame' = [frame EXCEPT ![t] = VPCopied(frame[t])]
    /\ UNCHANGED <<args, globalenv, rcalls>>

\* lines 243-253: a new table of gene, median_diff, pBH, log_pValue, log_FC
VPPrepared(f) ==
    LET df == Deref(f, f.results)
        f1 == Alloc(f, DataFrame([r \in 1..Len(df.index) |-> r - 1],
                                 <<"gene", "median_diff", "pBH", "log_pValue", "log_FC">>,
                                 [r \in 1..Len(df.index) |->
                                     <<df.index[r], Column(df, "diff.btw")[r],
                                       Column(df, "we.eBH")[r], Column(df, "we.eBH")[r],
                                       Column(df, "diff.btw")[r]>>]))
    IN  [f1 EXCEPT !.for_vulcano = LastRef(f1), !.pc = "vp_hue"]

VPPrepare(t) ==
    /\ frame[t].pc = "vp_prepare"
    /\ frame' = [frame EXCEPT ![t] = VPPrepared(frame[t])]
    /\ UNCHANGED <<args, globalenv, rcalls>>

\* lines 256-257: a copy of the gene column, None (written <<>>) where
\* log_pValue < -log10(pBH_threshold) * 0.99
VPHued(f) ==
    LET fv == Deref(f, f.for_vulcano)
        f1 == Alloc(f, Series(fv.index, Column(fv, "gene")))
        masked == [r \in 1..Len(fv.index) |->
                      IF 100 * Column(fv, "log_pValue")[r] < 99 * f.threshold
                      THEN <<>> ELSE <<Column(fv, "gene")[r]>>]
    IN  [f1 EXCEPT !.hue = LastRef(f1), !.objs[Len(f1.objs)].values = masked,
                   !.pc = "vp_render"]

VPHue(t) ==
    /\ frame[t].pc = "vp_hue"
    /\ frame' = [frame EXCEPT ![t] = VPHued(frame[t])]
    /\ UNCHANGED <<args, globalenv, rcalls>>

\* lines 258-278: the points, the three threshold lines, and the legend of
\* the genes kept in hue, removed when legend == False
VPRendered(f) ==
    LET fv == Deref(f, f.for_vulcano)
        hue == Deref(f, f.hue).values
        genes == Uniq(SelectSeq(hue, LAMBDA h : h # <<>>), {})
    IN  [f EXCEPT !.ax = [points |-> [r \in 1..Len(fv.index) |->
                                        [x |-> Column(fv, "log_FC")[r],
                                         y |-> Column(fv, "log_pValue")[r],
                                         color |-> IF hue[r] = <<>> THEN "grey" ELSE "hue",
                                         size |-> 0]],
                          lines |-> <<"x=-logFC", "x=logFC", "y=-log10(pBH)">>,
                          labels |-> genes,
                          legend |-> IF genes # <<>> /\ f.line_or_legend
                                     THEN [shown |-> TRUE, labels |-> genes]
                                     ELSE NoLegend],
                  !.pc = "done"]

VPRender(t) ==
    /\ frame[t].pc = "vp_render"
    /\ frame' = [frame EXCEPT ![t] = VPRendered(frame[t])]
    /\ UNCHANGED <<args, globalenv, rcalls>>

\* a call of a plot function on the caller's result table args[3]; flag is
\* horizontal_line of MA_plot, legend of vulcano_plot; threshold is
\* effect_threshold, pBH_threshold
PlotCall(op, threshold, flag) ==
    [IdleFrame EXCEPT !.op = op, !.pc = EntryPc(op),
                      !.results_input = CallerRef(3),
                      !.threshold = threshold, !.line_or_legend = flag]

(* ------------------------------ inputs --------------------------------- *)

\* a counts table of nf features and ns samples: the features of Z hold
\* only zeros, every other feature holds zeros and at least one count
CountsTable(nf, ns, Z) ==
    DataFrame(SubSeq(FeatureNames, 1, nf), SubSeq(SampleNames, 1, ns),
              [r \in 1..nf |-> [c \in 1..ns |->
                  IF r \in Z THEN 0
                  ELSE IF c = ((r - 1) % ns) + 1 THEN r
                  ELSE IF (r + c) % 3 = 1 THEN 1 ELSE 0]])

\* the orders of the rows of a table of n rows
Orders(n) == Permutations(1..n)

\* the metadata tables of the samples ids: one row per identifier, the rows
\* in any order, any condition label in the first column
MatchingMetadata(ids) ==
    {DataFrame([k \in 1..Len(ids) |-> ids[p[k]]], <<"condition", "batch">>,
               [k \in 1..Len(ids) |-> <<lab[k], "x">>]) :
        p \in Orders(Len(ids)), lab \in [1..Len(ids) -> Labels]}

\* metadata tables of other samples: n rows from the off-th identifier on
OtherMetadata ==
    {DataFrame(SubSeq(SampleNames, off + 1, off + n), <<"condition", "batch">>,
               [k \in 1..n |-> <<IF k % 2 = 1 THEN "A" ELSE "B", "x">>]) :
        n \in 1..MaxSamples, off \in {0, 1}}

\* two orders of the rows of the metadata of ids, with alternating labels
TwoOrders(ids) ==
    {DataFrame([k \in 1..Len(ids) |-> IF rev THEN ids[Len(ids) + 1 - k] ELSE ids[k]],
               <<"condition", "batch">>,
               [k \in 1..Len(ids) |-> <<IF k % 2 = 1 THEN "A" ELSE "B", "x">>]) :
        rev \in BOOLEAN}

McChoices == {PyStr("auto")} \cup {PyInt(n) : n \in 1..MaxMC}

NoTable == DataFrame(<<>>, <<>>, <<>>)

\* the table as given: features by samples, or samples by features
Given(table, transposed) == IF transposed THEN Transpose(table) ELSE table

\* the state before a call by thread 1 on the caller's tables
Start(counts, metadata, results, call) ==
    /\ args = <<counts, metadata, results>>
    /\ frame = [t \in Threads |-> IF t = 1 THEN call ELSE IdleFrame]

\* calls of run_aldex2 and get_clr_instance on tables without zero features
\* and any metadata of their samples, or metadata of other samples
MetadataCases ==
    \E nf \in 1..MaxFeatures, ns \in 1..MaxSamples, tr \in BOOLEAN :
      \E m \in MatchingMetadata(SubSeq(SampleNames, 1, ns)) \cup OtherMetadata :
        \E mc \in McChoices :
          \E c \in {AdapterCall("run_aldex2", "A.R", mc, PyStr("t")),
                    AdapterCall("get_clr_instance", "A.R", mc, PyInt(1))} :
            Start(Given(CountsTable(nf, ns, {}), tr), m, NoTable, c)

\* calls of get_clr_instance and get_clr on tables with any set of zero
\* features
ZeroCases ==
    \E nf \in 1..MaxFeatures, ns \in 1..MaxSamples, tr \in BOOLEAN :
      \E Z \in SUBSET (1..nf) :
        \E m \in TwoOrders(SubSeq(SampleNames, 1, ns))
                 \cup {x \in OtherMetadata : Len(x.index) = 1} :
          \E c \in {AdapterCall("get_clr_instance", "A.R", PyStr("auto"), PyInt(1))}
                   \cup {AdapterCall("get_clr", "A.R", PyInt(n), PyInt(0)) :
                            n \in 0..MaxMC} :
            Start(Given(CountsTable(nf, ns, Z), tr), m, NoTable, c)

EffectValues == {-3, 0, 2, 3}
Thresholds == {1, 2}

\* a result table: one row per feature, the effect sizes as given
ResultTable(effects) ==
    DataFrame(SubSeq(FeatureNames, 1, Len(effects)), ResultColumns,
              [r \in 1..Len(effects) |-> <<r, r - 2, effects[r], r - 1>>])

\* calls of the plot functions on result tables of one row or more
PlotCases ==
    \E n \in 1..MaxRows :
      \E effects \in [1..n -> EffectValues] :
        \E op \in {"MA_plot", "vulcano_plot"}, thr \in Thresholds, flag \in BOOLEAN :
          Start(NoTable, NoTable, ResultTable(effects), PlotCall(op, thr, flag))

EmptyEnv == [name \in Routines |-> ""]

Init ==
    /\ MetadataCases \/ ZeroCases \/ PlotCases
    /\ globalenv = EmptyEnv
    /\ rcalls = <<>>

Next ==
    \E t \in Threads :
        \/ Source(t)
        \/ Lookup(t)
        \/ Orient(t)
        \/ CheckShape(t)
        \/ Align(t)
        \/ ResolveMC(t)
        \/ DropZeroFeatures(t)
        \/ Invoke(t)
        \/ Loop(t)
        \/ Collect(t)
        \/ AggregateMedian(t)
        \/ MACopy(t)
        \/ MABucket(t)
        \/ MAScatter(t)
        \/ MALegend(t)
        \/ VPCopy(t)
        \/ VPPrepare(t)
        \/ VPHue(t)
        \/ VPRender(t)

Spec == Init /\ [][Next]_vars

(* ------------- calls that share the R global environment --------------- *)

\* thread t starts a call of run_aldex2 or get_clr_instance on the caller's
\* tables; the call overlaps every call that is under way; rcalls keeps the
\* invocations of the latest call of each thread
Called(f, op, script, busy) ==
    [AdapterCall(op, script, PyInt(1), IF op = "run_aldex2" THEN PyStr("t") ELSE PyInt(1))
        EXCEPT !.ncalls = f.ncalls + 1, !.overlapped = busy]

Call(t) ==
    /\ ~Active(frame[t])
    /\ frame[t].ncalls < MaxCalls
    /\ \E op \in {"run_aldex2", "get_clr_instance"}, script \in Scripts :
          frame' = [u \in Threads |->
                       IF u = t
                       THEN Called(frame[t], op, script,
                                   \E v \in Threads \ {t} : Active(frame[v]))
                       ELSE IF Active(frame[u])
                       THEN [frame[u] EXCEPT !.overlapped = TRUE]
                       ELSE frame[u]]
    /\ rcalls' = SelectSeq(rcalls, LAMBDA e : e.thread # t)
    /\ UNCHANGED <<args, globalenv>>

InitEnv ==
    /\ args = <<CountsTable(1, 1, {}),
                DataFrame(<<"s1">>, <<"condition", "batch">>, <<<<"A", "x">>>>),
                NoTable>>
    /\ frame = [t \in Threads |-> IdleFrame]
    /\ globalenv = EmptyEnv
    /\ rcalls = <<>>

NextEnv ==
    \E t \in Threads :
        \/ Call(t)
        \/ Source(t)
        \/ Lookup(t)
        \/ Orient(t)
        \/ CheckShape(t)
        \/ Align(t)
        \/ ResolveMC(t)
        \/ DropZeroFeatures(t)
        \/ Invoke(t)

SpecEnv == InitEnv /\ [][NextEnv]_vars

(* ------------------------------ claims --------------------------------- *)

\* the invocations of the R routines made by the current call of thread t
CallsOf(t) ==
    SelectSeq(rcalls, LAMBDA e : e.thread = t /\ e.call = frame[t].ncalls)

\* the first-column label the caller's metadata gives a sample identifier
HasLabel(id, lab) ==
    \E r \in 1..Len(args[2].index) :
        args[2].index[r] = id /\ args[2].values[r][1] = lab

\* the number of the samples ids that carry label lab
GroupSize(ids, lab) ==
    Cardinality({k \in 1..Len(ids) : HasLabel(ids[k], lab)})

\* m is the size of the smallest label group over the samples ids
IsSmallestGroup(m, ids) ==
    /\ \E lab \in Labels : GroupSize(ids, lab) = m /\ m >= 1
    /\ \A lab \in Labels : GroupSize(ids, lab) >= 1 => m <= GroupSize(ids, lab)

\* the caller's counts table after the orientation correction
OrientedCounts ==
    IF Len(args[1].columns) # Len(args[2].index) THEN Transpose(args[1])
    ELSE args[1]

PastCheck == {"align", "resolve", "dropzero", "invoke", "collect"}

\* C1: after the orientation correction the counts columns are as many as
\* the metadata rows, or the call fails with the precondition assertion,
\* before any invocation of the R routine and without a result.
C1_OrientedOrFailsFast ==
    \A t \in Threads :
        LET f == frame[t]
        IN  /\ f.pc \in PastCheck
               => Shape1(Deref(f, f.input_counts)) = Len(args[2].index)
            /\ f.err = "AssertionError"
               => /\ Shape1(Deref(f, f.input_counts)) # Len(args[2].index)
                  /\ CallsOf(t) = <<>>
                  /\ f.df_result = NoRef /\ f.averages = NoRef /\ f.dfs = <<>>
            /\ \A k \in 1..Len(rcalls) :
                   Len(rcalls[k].df.names) = Len(args[2].index)

\* C1 witness: a call that transposed its counts and then failed the
\* precondition.
C1_Witness ==
    \E t \in Threads :
        /\ frame[t].err = "AssertionError"
        /\ frame[t].input_counts.sp = "local"
        /\ Deref(frame[t], frame[t].input_counts) = Transpose(args[1])
        /\ Len(args[1].index) > 1

\* C2: with mc_samples = "auto" the routine receives floor(1000 / m), m the
\* size of the smallest label group over the samples of the counts table;
\* with an explicit integer it receives that integer.
C2_MonteCarloCount ==
    \A k \in 1..Len(rcalls) :
        LET e == rcalls[k]
        IN  /\ IsAuto(e.mc_samples)
               => \E m \in 1..Len(e.df.names) :
                      /\ IsSmallestGroup(m, e.df.names)
                      /\ e.mc * m <= AutoTotal
                      /\ AutoTotal < (e.mc + 1) * m
            /\ ~IsAuto(e.mc_samples) => e.mc = e.mc_samples.n

\* C2 witness: an auto-resolved count for a smallest group of three, which
\* does not divide 1000.
C2_Witness ==
    \E k \in 1..Len(rcalls) :
        /\ IsAuto(rcalls[k].mc_samples)
        /\ IsSmallestGroup(3, rcalls[k].df.names)
        /\ rcalls[k].mc = 333

\* C3: the auto-resolved count c is at least 1 and c * m >= 1000, m the size
\* of the smallest label group.
C3_AutoCountMeetsMinimum ==
    \A k \in 1..Len(rcalls) :
        IsAuto(rcalls[k].mc_samples)
        => /\ rcalls[k].mc >= 1
           /\ \A m \in 1..Len(rcalls[k].df.names) :
                  IsSmallestGroup(m, rcalls[k].df.names)
                  => rcalls[k].mc * m >= AutoTotal

\* the cell of a table found by its labels
CellAt(df, rl, cl) ==
    df.values[CHOOSE r \in 1..Len(df.index) : df.index[r] = rl]
             [CHOOSE c \in 1..Len(df.columns) : df.columns[c] = cl]

\* v is the median of vals: the mean of the values of the two middle ranks
\* (one rank when the values are odd in number), in units of 1/2
IsMedianOf(v, vals) ==
    LET n == Len(vals)
        below(x) == Cardinality({j \in 1..n : vals[j] < x})
        upto(x) == Cardinality({j \in 1..n : vals[j] <= x})
        hasRank(x, rk) == below(x) < rk /\ rk <= upto(x)
    IN  \E a, b \in 1..n :
            /\ hasRank(vals[a], (n + 1) \div 2)
            /\ hasRank(vals[b], (n \div 2) + 1)
            /\ 2 * v = vals[a] + vals[b]

\* C4: get_clr with mc_samples = n invokes the R routine once for each
\* instance 1..n in turn, each time with the same table, condition vector
\* and Monte-Carlo count n, and returns at each cell the median of the n
\* instance tables.
C4_OncePerInstanceThenMedian ==
    \A t \in Threads :
        LET f == frame[t]
            cs == CallsOf(t)
        IN  f.op = "get_clr" =>
            /\ \A k \in 1..Len(cs) :
                   /\ cs[k].arg4 = PyInt(k)
                   /\ cs[k].routine = "get_clr"
                   /\ cs[k].mc = f.mc_samples.n
                   /\ cs[k].df = cs[1].df
                   /\ cs[k].cond = cs[1].cond
            /\ Len(cs) <= f.mc_samples.n
            /\ f.pc \in {"aggregate", "done"}
               => Len(cs) = f.mc_samples.n /\ Len(f.dfs) = f.mc_samples.n
            /\ f.pc = "done" =>
                   LET av == Deref(f, f.averages)
                   IN  /\ f.mc_samples.n >= 1
                       /\ {av.index[r] : r \in 1..Len(av.index)}
                            = {f.dfs[1].index[r] : r \in 1..Len(f.dfs[1].index)}
                       /\ \A r \in 1..Len(av.index), c \in 1..Len(av.columns) :
                              IsMedianOf(av.values[r][c],
                                         [j \in 1..Len(f.dfs) |->
                                             CellAt(f.dfs[j], av.index[r], av.columns[c])])

\* C4 witness: a get_clr of three instances has returned, and at some cell
\* the median is not the value of the second instance.
C4_Witness ==
    \E t \in Threads :
        /\ frame[t].op = "get_clr" /\ frame[t].pc = "done"
        /\ frame[t].mc_samples.n = 3
        /\ Len(CallsOf(t)) = 3
        /\ LET av == Deref(frame[t], frame[t].averages)
           IN  \E r \in 1..Len(av.index), c \in 1..Len(av.columns) :
                   av.values[r][c] # CellAt(frame[t].dfs[2], av.index[r], av.columns[c])

\* C5: the median aggregation gives the same table for every order of the
\* instance tables.
C5_MedianOrderInvariant ==
    \A t \in Threads :
        LET f == frame[t]
        IN  (f.op = "get_clr" /\ f.pc = "done") =>
            \A p \in Permutations(1..Len(f.dfs)) :
                Aggregate([j \in 1..Len(f.dfs) |-> f.dfs[p[j]]])
                    = Deref(f, f.averages)

\* C5 witness: three instance tables, pairwise different, have been
\* aggregated.
C5_Witness ==
    \E t \in Threads :
        /\ frame[t].op = "get_clr" /\ frame[t].pc = "done"
        /\ Len(frame[t].dfs) = 3
        /\ frame[t].dfs[1] # frame[t].dfs[2]
        /\ frame[t].dfs[2] # frame[t].dfs[3]
        /\ frame[t].dfs[1] # frame[t].dfs[3]
        /\ Len(frame[t].dfs[1].index) >= 1

NonZeroRow(df, r) == \E c \in 1..Len(df.columns) : df.values[r][c] # 0

\* C6: the table the CLR routine receives holds exactly the features of the
\* oriented counts table that are not all zero, in their order, with their
\* sample columns unchanged.
C6_ExactlyNonZeroFeatures ==
    \A k \in 1..Len(rcalls) :
        LET e == rcalls[k]
            O == OrientedCounts
            kept(r) == Cardinality({q \in 1..r : NonZeroRow(O, q)})
        IN  e.routine = "get_clr" =>
            /\ e.df.names = O.columns
            /\ Len(e.df.rownames) = kept(Len(O.index))
            /\ \A r \in 1..Len(O.index) :
                   NonZeroRow(O, r) =>
                       /\ e.df.rownames[kept(r)] = O.index[r]
                       /\ \A c \in 1..Len(O.columns) :
                              e.df.cols[c][kept(r)] = O.values[r][c]

\* C6 witness: the CLR routine received a table from which a zero feature
\* was dropped and in which a feature with a zero first count was kept.
C6_Witness ==
    \E k \in 1..Len(rcalls) :
        /\ rcalls[k].routine = "get_clr"
        /\ Len(rcalls[k].df.rownames) < Len(OrientedCounts.index)
        /\ \E r \in 1..Len(rcalls[k].df.rownames) : rcalls[k].df.cols[1][r] = 0

\* C7: the i-th condition label is the first-column metadata label of the
\* sample whose identifier is the i-th column of the table passed, in every
\* invocation and whatever the order of the metadata rows.
C7_ConditionsAligned ==
    \A k \in 1..Len(rcalls) :
        LET e == rcalls[k]
        IN  /\ Len(e.cond) = Len(e.df.names)
            /\ \A i \in 1..Len(e.df.names) : HasLabel(e.df.names[i], e.cond[i])

\* C7 witness: an invocation on a square table that was not transposed,
\* with metadata rows in another order than the columns and with two labels.
C7_Witness ==
    \E k \in 1..Len(rcalls) :
        /\ rcalls[k].df.names = args[1].columns
        /\ Len(args[1].index) = Len(args[1].columns)
        /\ Len(args[1].columns) >= 2
        /\ args[2].index # args[1].columns
        /\ \E i \in 1..Len(rcalls[k].cond) : rcalls[k].cond[i] # rcalls[k].cond[1]

\* the effect of row r of the caller's result table is beyond the threshold
Highlighted(r, threshold) ==
    LET e == args[3].values[r][3]
    IN  e > threshold \/ e < -threshold

\* C8: MA_plot puts every feature in exactly one bucket, red and big when
\* abs(effect) > effect_threshold and black and small otherwise, and does
\* not fail; the legend is removed when all features are in one bucket and
\* else shows the two bucket labels.
C8_BucketsAndLegend ==
    \A t \in Threads :
        LET f == frame[t]
            rows == 1..Len(args[3].index)
        IN  f.op = "MA_plot" =>
            /\ f.pc # "failed"
            /\ f.pc = "done" =>
                /\ Len(f.ax.points) = Len(args[3].index)
                /\ \A r \in rows :
                       IF Highlighted(r, f.threshold)
                       THEN f.ax.points[r].color = "red" /\ f.ax.points[r].size = 20
                       ELSE f.ax.points[r].color = "black" /\ f.ax.points[r].size = 5
                /\ IF (\A r \in rows : Highlighted(r, f.threshold))
                      \/ (\A r \in rows : ~Highlighted(r, f.threshold))
                   THEN ~f.ax.legend.shown
                   ELSE /\ f.ax.legend.shown
                        /\ Len(f.ax.legend.labels) = 2
                        /\ {f.ax.legend.labels[k] : k \in 1..2}
                             = {HueAbove(f.threshold), HueBelow(f.threshold)}

\* C8 witness: MA_plot has drawn a table with a negative effect beyond the
\* threshold and an effect equal to the threshold, with a legend.
C8_Witness ==
    \E t \in Threads :
        /\ frame[t].op = "MA_plot" /\ frame[t].pc = "done"
        /\ frame[t].ax.legend.shown
        /\ \E r \in 1..Len(args[3].index) : args[3].values[r][3] < -frame[t].threshold
        /\ \E r \in 1..Len(args[3].index) : args[3].values[r][3] = frame[t].threshold

\* C10: no step of run_aldex2, get_clr_instance, get_clr, MA_plot or
\* vulcano_plot changes the caller's counts, metadata or result table.
C10_CallerTablesUnchanged == [][args' = args]_vars

\* C10 witness: a call has transposed and filtered its copy of the counts
\* and reordered its metadata, or has added columns to its copy of the
\* result table.
C10_Witness ==
    \E t \in Threads :
        LET f == frame[t]
        IN  \/ /\ f.op = "get_clr_instance" /\ f.pc = "done"
               /\ Deref(f, f.input_counts).columns # args[1].columns
               /\ Len(Deref(f, f.input_counts).index) < Len(args[1].columns)
               /\ Deref(f, f.metadata).index # args[2].index
            \/ /\ f.op = "MA_plot" /\ f.pc = "done"
               /\ Len(Deref(f, f.results).columns) = Len(args[3].columns) + 2

\* C9: a call that overlaps no other call invokes the routine its own
\* script defines, whatever scripts were sourced before it; calls that
\* interleave between source and lookup can invoke the routine of the other
\* call's script (C9_Witness).
C9_OwnRoutineWhenAlone ==
    /\ \A k \in 1..Len(rcalls) :
           (~rcalls[k].overlapped /\ rcalls[k].routine \in Defines(rcalls[k].script))
           => rcalls[k].fn = rcalls[k].script
    /\ \A t \in Threads :
           (/\ frame[t].pc \in PastCheck \cup {"orient", "check"}
            /\ ~frame[t].overlapped
            /\ RoutineOf(frame[t].op) \in Defines(frame[t].r_script_path))
           => frame[t].fn = frame[t].r_script_path

\* C9 witness: a call made alone, after another script was sourced, invoked
\* its own script's routine, and an overlapped call invoked the routine of
\* the other call's script although its own script defines one.
C9_Witness ==
    /\ \E k \in 1..Len(rcalls) :
           /\ ~rcalls[k].overlapped
           /\ rcalls[k].fn = rcalls[k].script
           /\ \E name \in Routines : globalenv[name] \notin {"", rcalls[k].script}
    /\ \E k \in 1..Len(rcalls) :
           /\ rcalls[k].overlapped
           /\ rcalls[k].routine \in Defines(rcalls[k].script)
           /\ rcalls[k].fn # rcalls[k].script

====
